---- MODULE Spec2Model ----
(***************************************************************************)
(* TubeKit web client (src/web/app.js): identifier extraction, address     *)
(* (query string) synchronisation, the two asynchronous fetches (oEmbed    *)
(* metadata, feed listing) and the rendering they drive.                   *)
(*                                                                         *)
(* Text that the program parses (inputs, ids, addresses) is a sequence of  *)
(* one-character strings.  Text that is only displayed (titles, messages)  *)
(* is a TLA+ string.  Str() converts the first into the second.            *)
(***************************************************************************)
EXTENDS Integers, Sequences, FiniteSets, TLC

\* ------------------------------------------------------------------------
\* Characters and text helpers
\* ------------------------------------------------------------------------

LowerLetters ==
  <<"a","b","c","d","e","f","g","h","i","j","k","l","m",
    "n","o","p","q","r","s","t","u","v","w","x","y","z">>

UpperLetters ==
  <<"A","B","C","D","E","F","G","H","I","J","K","L","M",
    "N","O","P","Q","R","S","T","U","V","W","X","Y","Z">>

Digits == {"0","1","2","3","4","5","6","7","8","9"}

Range(s) == { s[i] : i \in DOMAIN s }

Letters == Range(LowerLetters) \cup Range(UpperLetters)

\* the character class [a-zA-Z0-9_-] of the three identifier patterns
IdChars == Letters \cup Digits \cup {"_", "-"}

\* the characters String.prototype.trim removes (space, tab, line breaks)
WhiteSpace == {" ", "\t", "\n"}

\* a text as a displayed string
RECURSIVE Str(_)
Str(s) == IF s = <<>> THEN "" ELSE Head(s) \o Str(Tail(s))

\* String.prototype.trim
RECURSIVE TrimLeft(_)
TrimLeft(s) ==
  IF s # <<>> /\ Head(s) \in WhiteSpace THEN TrimLeft(Tail(s)) ELSE s

RECURSIVE TrimRight(_)
TrimRight(s) ==
  IF s # <<>> /\ s[Len(s)] \in WhiteSpace
    THEN TrimRight(SubSeq(s, 1, Len(s) - 1))
    ELSE s

Trim(s) == TrimRight(TrimLeft(s))

\* s.substring(from - 1), 1-based
Drop(s, from) == SubSeq(s, from, Len(s))

StartsWith(s, p) == Len(s) >= Len(p) /\ SubSeq(s, 1, Len(p)) = p

EndsWith(s, p) ==
  Len(s) >= Len(p) /\ SubSeq(s, Len(s) - Len(p) + 1, Len(s)) = p

\* least index >= from whose character is in cs, or Len(s) + 1
FirstIn(s, cs, from) ==
  LET hits == { i \in from..Len(s) : s[i] \in cs }
  IN  IF hits = {} THEN Len(s) + 1
      ELSE CHOOSE i \in hits : \A j \in hits : i <= j

\* least index >= from whose character is not in cs, or Len(s) + 1
FirstNotIn(s, cs, from) ==
  LET hits == { i \in from..Len(s) : s[i] \notin cs }
  IN  IF hits = {} THEN Len(s) + 1
      ELSE CHOOSE i \in hits : \A j \in hits : i <= j

\* String.prototype.split on a one-character separator
RECURSIVE Split(_, _)
Split(s, sep) ==
  LET i == FirstIn(s, {sep}, 1)
  IN  IF i > Len(s) THEN <<s>>
      ELSE <<SubSeq(s, 1, i - 1)>> \o Split(Drop(s, i + 1), sep)

\* Array.prototype.filter(Boolean) on an array of strings
RECURSIVE FilterNonEmpty(_)
FilterNonEmpty(parts) ==
  IF parts = <<>> THEN <<>>
  ELSE IF Head(parts) = <<>> THEN FilterNonEmpty(Tail(parts))
  ELSE <<Head(parts)>> \o FilterNonEmpty(Tail(parts))

ToLowerChar(c) ==
  IF c \in Range(UpperLetters)
    THEN LowerLetters[CHOOSE i \in DOMAIN UpperLetters : UpperLetters[i] = c]
    ELSE c

ToLower(s) == [ i \in DOMAIN s |-> ToLowerChar(s[i]) ]

\* ------------------------------------------------------------------------
\* Identifier patterns
\* ------------------------------------------------------------------------

\* {11} in /^[a-zA-Z0-9_-]{11}$/
VideoIdLen == 11

\* {22} in /UC[a-zA-Z0-9_-]{22}/
ChannelTailLen == 22

\* the value of a missing identifier (null) and of an absent text
NoText == <<>>

\* the pattern without its "$": the first 11 characters decide
MatchesVideoIdPrefix(s) ==
  Len(s) >= VideoIdLen /\ \A i \in 1..VideoIdLen : s[i] \in IdChars

\* /^[a-zA-Z0-9_-]{11}$/ matches s
MatchesVideoId(s) ==
  Len(s) = VideoIdLen /\ \A i \in DOMAIN s : s[i] \in IdChars

\* ------------------------------------------------------------------------
\* new URL(raw): the part of the WHATWG parser the extractors depend on.
\* A scheme (a letter, then letters, digits, "+", "-", ".") and ":" are
\* required.  http and https skip any slashes after the colon, need a
\* non-empty host without white space, and lower-case it; any other scheme
\* has a host only after "//".  User info and port are cut from the host.
\* Percent-escapes and dot segments are not interpreted.
\* ------------------------------------------------------------------------

SchemeChars == Letters \cup Digits \cup {"+", "-", "."}

SpecialSchemes == { <<"h","t","t","p">>, <<"h","t","t","p","s">> }

ParseFailure ==
  [ok |-> FALSE, hostname |-> NoText, pathname |-> NoText, search |-> NoText]

\* the host, path and query of the text that follows "scheme:", where the
\* authority starts at index from
ParseAuthority(rest, from, special) ==
  LET hostEnd   == FirstIn(rest, {"/", "?", "#"}, from)
      authority == SubSeq(rest, from, hostEnd - 1)
      ats       == { i \in DOMAIN authority : authority[i] = "@" }
      afterUser == IF ats = {} THEN authority
                   ELSE Drop(authority,
                             (CHOOSE i \in ats : \A j \in ats : j <= i) + 1)
      portAt    == FirstIn(afterUser, {":"}, 1)
      hostRaw   == SubSeq(afterUser, 1, portAt - 1)
      pathEnd   == FirstIn(rest, {"?", "#"}, hostEnd)
      pathRaw   == SubSeq(rest, hostEnd, pathEnd - 1)
      queryEnd  == FirstIn(rest, {"#"}, pathEnd)
      query     == IF pathEnd <= Len(rest) /\ rest[pathEnd] = "?"
                     THEN SubSeq(rest, pathEnd + 1, queryEnd - 1)
                     ELSE NoText
  IN  IF special /\ (hostRaw = <<>> \/ Range(hostRaw) \cap WhiteSpace # {})
        THEN ParseFailure
        ELSE [ok       |-> TRUE,
              hostname |-> IF special THEN ToLower(hostRaw) ELSE hostRaw,
              pathname |-> IF special /\ pathRaw = <<>> THEN <<"/">>
                           ELSE pathRaw,
              search   |-> query]

ParseURL(raw) ==
  LET colon  == FirstIn(raw, {":"}, 1)
      scheme == ToLower(SubSeq(raw, 1, colon - 1))
      rest   == Drop(raw, colon + 1)
  IN  IF \/ colon > Len(raw)
         \/ scheme = <<>>
         \/ scheme[1] \notin Letters
         \/ \E i \in DOMAIN scheme : scheme[i] \notin SchemeChars
        THEN ParseFailure
      ELSE IF scheme \in SpecialSchemes
        THEN ParseAuthority(rest, FirstNotIn(rest, {"/"}, 1), TRUE)
      ELSE IF StartsWith(rest, <<"/", "/">>)
        THEN ParseAuthority(rest, 3, FALSE)
      ELSE LET pathEnd  == FirstIn(rest, {"?", "#"}, 1)
               queryEnd == FirstIn(rest, {"#"}, pathEnd)
           IN  [ok       |-> TRUE,
                hostname |-> NoText,
                pathname |-> SubSeq(rest, 1, pathEnd - 1),
                search   |-> IF pathEnd <= Len(rest) /\ rest[pathEnd] = "?"
                               THEN SubSeq(rest, pathEnd + 1, queryEnd - 1)
                               ELSE NoText]

\* the decoding URLSearchParams applies to a name or value: "+" is a space
PlusDecode(s) == [ i \in DOMAIN s |-> IF s[i] = "+" THEN " " ELSE s[i] ]

\* URLSearchParams.get(name) on a query string: the value of the first
\* pair with that name, or NoText for null
RECURSIVE FirstValue(_, _)
FirstValue(pairs, name) ==
  IF pairs = <<>> THEN NoText
  ELSE LET p  == Head(pairs)
           eq == FirstIn(p, {"="}, 1)
       IN  IF PlusDecode(SubSeq(p, 1, eq - 1)) = name
             THEN PlusDecode(Drop(p, eq + 1))
             ELSE FirstValue(Tail(pairs), name)

SearchParamsGet(search, name) ==
  FirstValue(FilterNonEmpty(Split(search, "&")), name)

\* ------------------------------------------------------------------------
\* The three extractors
\* ------------------------------------------------------------------------

\* parts[k] || "" (k is 1-based here)
PartOrEmpty(parts, k) == IF k <= Len(parts) THEN parts[k] ELSE NoText

WwwDot == <<"w","w","w",".">>

YoutuBe == <<"y","o","u","t","u",".","b","e">>

YoutubeCom == <<"y","o","u","t","u","b","e",".","c","o","m">>

Shorts == <<"s","h","o","r","t","s">>

Embed == <<"e","m","b","e","d">>

\* extractVideoId: the id, or NoText for null
ExtractVideoId(input) ==
  LET raw == Trim(input)
  IN  IF raw = <<>> THEN NoText
      ELSE IF MatchesVideoId(raw) THEN raw
      ELSE LET url == ParseURL(raw)
           IN  IF ~url.ok THEN NoText
               ELSE LET host  == IF StartsWith(url.hostname, WwwDot)
                                   THEN Drop(url.hostname, Len(WwwDot) + 1)
                                   ELSE url.hostname
                        parts == FilterNonEmpty(Split(url.pathname, "/"))
                        v     == SearchParamsGet(url.search, <<"v">>)
                    IN  IF host = YoutuBe
                          THEN IF MatchesVideoId(PartOrEmpty(parts, 1))
                                 THEN PartOrEmpty(parts, 1) ELSE NoText
                        ELSE IF EndsWith(host, YoutubeCom)
                          THEN IF v # NoText /\ MatchesVideoId(v) THEN v
                               ELSE IF PartOrEmpty(parts, 1) \in {Shorts, Embed}
                                 THEN IF MatchesVideoId(PartOrEmpty(parts, 2))
                                        THEN PartOrEmpty(parts, 2)
                                        ELSE NoText
                               ELSE NoText
                        ELSE NoText

\* the leftmost match of prefix followed by IdChars: at least minTail of
\* them, and at most maxTail (0 for no limit, the greedy "+")
PrefixedMatch(raw, prefix, minTail, maxTail) ==
  LET n      == Len(prefix)
      tailEnd(i) == FirstNotIn(raw, IdChars, i + n) - 1
      starts == { i \in 1..(Len(raw) - n + 1) :
                    /\ SubSeq(raw, i, i + n - 1) = prefix
                    /\ tailEnd(i) - (i + n - 1) >= minTail }
  IN  IF starts = {} THEN NoText
      ELSE LET i     == CHOOSE k \in starts : \A j \in starts : k <= j
               avail == tailEnd(i) - (i + n - 1)
               take  == IF maxTail > 0 /\ avail > maxTail THEN maxTail
                        ELSE avail
           IN  SubSeq(raw, i, i + n - 1 + take)

\* extractChannelId: /UC[a-zA-Z0-9_-]{22}/
ExtractChannelId(input) ==
  LET raw == Trim(input)
  IN  IF raw = <<>> THEN NoText
      ELSE PrefixedMatch(raw, <<"U", "C">>, ChannelTailLen, ChannelTailLen)

\* extractPlaylistId: /PL[a-zA-Z0-9_-]+/
ExtractPlaylistId(input) ==
  LET raw == Trim(input)
  IN  IF raw = <<>> THEN NoText
      ELSE PrefixedMatch(raw, <<"P", "L">>, 1, 0)

\* ------------------------------------------------------------------------
\* Bounds and the inputs the environment offers
\* ------------------------------------------------------------------------

\* most fetches (oEmbed and feed together) in flight when the user starts
\* one more
MaxInFlight == 2

Https == <<"h","t","t","p","s",":","/","/">>

VidA == <<"d","Q","w","4","w","9","W","g","X","c","Q">>

VidB == <<"a","_","b","-","c","0","1","2","3","4","Z">>

ChA == <<"U","C","X","6","O","Q","3","D","k","c","s","b","Y","N","E","6",
         "H","8","u","Q","Q","u","V","A">>

PlA == <<"P","L","s","o","m","e","i","d","1","2","3","-","_">>

\* what #videoInput may hold when #playBtn is clicked
VideoInputs ==
  { VidA,
    Https \o YoutuBe \o <<"/">> \o VidB,
    <<"n","o","t"," ","a"," ","u","r","l">> }

\* what #channelInput may hold when #channelBtn is clicked
ChannelInputs ==
  { <<"s","e","e"," ">> \o ChA \o <<" ">>,
    <<"@","h","a","n","d","l","e">> }

\* what #playlistInput may hold when #playlistBtn is clicked
PlaylistInputs ==
  { <<"l","i","s","t","=">> \o PlA \o <<"&","i","=","1">>,
    <<"p","l","a","y">> }

\* the addresses the page may be opened with
StartAddresses ==
  { [k \in {} |-> NoText],
    [v |-> Https \o YoutuBe \o <<"/">> \o VidB, channel |-> ChA],
    [v |-> VidA, playlist |-> <<"l","i","s","t","=">> \o PlA],
    [channel |-> ChA, playlist |-> PlA],
    [v |-> <<"n","o","p","e">>, channel |-> <<"@","h","a","n","d","l","e">>] }

\* the extractors on every text the model hands them, computed once
VideoIdOf ==
  [ s \in VideoInputs \cup { IF "v" \in DOMAIN a THEN a["v"] ELSE NoText :
                               a \in StartAddresses } |-> ExtractVideoId(s) ]

ChannelIdOf ==
  [ s \in ChannelInputs
           \cup { IF "channel" \in DOMAIN a THEN a["channel"] ELSE NoText :
                  a \in StartAddresses } |-> ExtractChannelId(s) ]

PlaylistIdOf ==
  [ s \in PlaylistInputs
           \cup { IF "playlist" \in DOMAIN a THEN a["playlist"] ELSE NoText :
                  a \in StartAddresses } |-> ExtractPlaylistId(s) ]

\* ------------------------------------------------------------------------
\* Status line, address, player, metadata panel
\* ------------------------------------------------------------------------

\* setStatus(message, {error})
SetStatus(message, error) == [text |-> message, error |-> error]

LoadingMsg == "Loading feed..."

NoVideoMsg == "Couldn't find a video ID in that input."

NoChannelMsg == "Enter a channel ID like UC... (handles need a channel ID)."

NoPlaylistMsg == "Enter a playlist ID like PL..."

\* setQuery writing an empty value instead of deleting the parameter
SetQueryKeepsEmpty(a, updates) ==
  [ k \in DOMAIN a \cup DOMAIN updates |->
      IF k \in DOMAIN updates THEN updates[k] ELSE a[k] ]

\* null and undefined as values of an update: no text equals them (the
\* callers of this program pass null, which NoText stands for as well)
Null == <<"null">>

Undefined == <<"undefined">>

\* setQuery(updates) on the address a: a parameter updated to null,
\* undefined or the empty string is deleted, any other is set
SetQuery(a, updates) ==
  LET deleted == { k \in DOMAIN updates :
                     updates[k] \in {Null, Undefined, NoText} }
      kept    == (DOMAIN a \cup DOMAIN updates) \ deleted
  IN  [ k \in kept |-> IF k \in DOMAIN updates THEN updates[k] ELSE a[k] ]

\* url.searchParams.get(name) on the address: NoText for null
QueryGet(a, name) == IF name \in DOMAIN a THEN a[name] ELSE NoText

\* history.pushState in the place of history.replaceState
PushState(h, url) == Append(h, url)

\* history.replaceState(null, "", url): the current entry of the session
\* history h takes the address url; no entry is added
ReplaceState(h, url) == [h EXCEPT ![Len(h)] = url]

EmbedBase ==
  Https \o <<"w","w","w",".","y","o","u","t","u","b","e","-","n","o","c","o",
             "o","k","i","e",".","c","o","m","/","e","m","b","e","d","/">>

EmbedParams ==
  <<"a","u","t","o","p","l","a","y","=","1","&","r","e","l","=","0","&",
    "m","o","d","e","s","t","b","r","a","n","d","i","n","g","=","1">>

\* setPlayer(videoId): the frame's address and the placeholder's display
SetPlayer(videoId) ==
  IF videoId = NoText
    THEN [src |-> NoText, placeholder |-> "grid"]
    ELSE LET url == ParseURL(EmbedBase \o videoId)
         IN  [src |-> Https \o url.hostname \o url.pathname \o <<"?">>
                      \o (IF url.search = NoText THEN NoText
                          ELSE url.search \o <<"&">>)
                      \o EmbedParams,
              placeholder |-> "none"]

\* setPlayer for the model's videos, computed once
PlayerFor == [ id \in {VidA, VidB} |-> SetPlayer(id) ]

\* the video id a frame address embeds: the path segment after "embed"
EmbeddedId(src) ==
  PartOrEmpty(FilterNonEmpty(Split(ParseURL(src).pathname, "/")), 2)

\* encodeURIComponent on the characters the model's texts use
EscapeOf ==
  [c \in {" ", "/", "?", "#", "&", "=", ":", "+", "@"} |->
     CASE c = " " -> <<"%","2","0">>
       [] c = "/" -> <<"%","2","F">>
       [] c = "?" -> <<"%","3","F">>
       [] c = "#" -> <<"%","2","3">>
       [] c = "&" -> <<"%","2","6">>
       [] c = "=" -> <<"%","3","D">>
       [] c = ":" -> <<"%","3","A">>
       [] c = "+" -> <<"%","2","B">>
       [] c = "@" -> <<"%","4","0">>]

RECURSIVE EncodeURIComponent(_)
EncodeURIComponent(s) ==
  IF s = <<>> THEN <<>>
  ELSE (IF Head(s) \in DOMAIN EscapeOf THEN EscapeOf[Head(s)] ELSE <<Head(s)>>)
       \o EncodeURIComponent(Tail(s))

WatchBase ==
  Https \o <<"w","w","w",".","y","o","u","t","u","b","e",".","c","o","m","/",
             "w","a","t","c","h","?","v","=">>

\* an undefined or absent displayed text
NoString == ""

\* the panel before anything is rendered into it
EmptyMeta ==
  [title |-> NoString, byline |-> NoString, watch |-> NoText,
   share |-> [k \in {} |-> NoText]]

\* renderMeta({videoId, title, author_name}) with the page at address a
RenderMeta(videoId, title, author_name, a) ==
  [title  |-> IF title # NoString THEN title
              ELSE IF videoId # NoText THEN "Video: " \o Str(videoId)
              ELSE NoString,
   byline |-> IF author_name # NoString THEN "by " \o author_name
              ELSE NoString,
   watch  |-> IF videoId = NoText THEN NoText
              ELSE WatchBase \o EncodeURIComponent(videoId),
   share  |-> IF videoId = NoText THEN [k \in {} |-> NoText]
              ELSE [k \in DOMAIN a \cup {"v"} |->
                      IF k = "v" THEN videoId ELSE a[k]]]

\* the video id a watch address names: its v parameter
WatchedId(href) == SearchParamsGet(ParseURL(href).search, <<"v">>)

\* ------------------------------------------------------------------------
\* Remote data: what a fetch can come back with, and fetchJson
\* ------------------------------------------------------------------------

\* a JSON object with no fields (also what null offers to ?. and spread)
EmptyObject == [k \in {} |-> NoString]

\* fetch() rejected: no response at all
Rejected(message) ==
  [rejected |-> TRUE, message |-> message, ok |-> FALSE, status |-> 0,
   text |-> NoString, valid |-> FALSE, json |-> EmptyObject]

\* a response: status, ok (status in 200..299), the body text, whether
\* JSON.parse accepts the text, and the value it gives then
Response(status, text, valid, json) ==
  [rejected |-> FALSE, message |-> NoString,
   ok |-> (status >= 200 /\ status <= 299), status |-> status,
   text |-> text, valid |-> valid, json |-> json]

\* data.name for a string field: NoString when undefined
Field(data, name) == IF name \in DOMAIN data THEN data[name] ELSE NoString

\* fetchJson whose catch forgets the body text
FetchJsonNoText(res) ==
  IF res.rejected
    THEN [threw |-> TRUE, message |-> res.message, data |-> EmptyObject]
    ELSE LET data == IF res.valid THEN res.json
                     ELSE [error |-> "HTTP " \o ToString(res.status)]
         IN  IF ~res.ok
               THEN [threw |-> TRUE,
                     message |-> IF Field(data, "error") # NoString
                                   THEN Field(data, "error")
                                   ELSE "HTTP " \o ToString(res.status),
                     data |-> EmptyObject]
               ELSE [threw |-> FALSE, message |-> NoString, data |-> data]

\* fetchJson: the value returned, or the message of the error thrown
FetchJson(res) ==
  IF res.rejected
    THEN [threw |-> TRUE, message |-> res.message, data |-> EmptyObject]
    ELSE LET data == IF res.valid THEN res.json
                     ELSE [error |-> IF res.text # NoString THEN res.text
                                     ELSE "HTTP " \o ToString(res.status)]
         IN  IF ~res.ok
               THEN [threw   |-> TRUE,
                     message |-> IF Field(data, "error") # NoString
                                   THEN Field(data, "error")
                                   ELSE "HTTP " \o ToString(res.status),
                     data    |-> EmptyObject]
               ELSE [threw |-> FALSE, message |-> NoString, data |-> data]

\* the ways a request for /api/oembed may end
OEmbedOutcomes == {"ok", "notFound", "rejected"}

\* what GET /api/oembed?v=<videoId> comes back with
OEmbedResponse(videoId, outcome) ==
  CASE outcome = "ok" ->
         Response(200, "{title, author_name}", TRUE,
                  [title |-> "Title of " \o Str(videoId),
                   author_name |-> "Author"])
    [] outcome = "notFound" ->
         Response(404, "{error}", TRUE, [error |-> "oEmbed lookup failed"])
    [] outcome = "rejected" -> Rejected("Failed to fetch")

\* one entry of a feed
FeedItem(videoId, title, description, published, thumbnail, link) ==
  [videoId |-> videoId, title |-> title, description |-> description,
   published |-> published, thumbnail |-> thumbnail, link |-> link]

\* the feed the backend returns for a request
FeedOf(req) ==
  [title   |-> "Uploads of " \o Str(req.id),
   feedUrl |-> "https://www.youtube.com/feeds/videos.xml?" \o req.param
               \o "=" \o Str(req.id),
   items   |-> << FeedItem(VidB, "Second video", "About it",
                           "2024-01-02T03:04:05+00:00",
                           Https \o <<"i",".","y","t","/","b",".","j","p","g">>,
                           WatchBase \o VidB),
                  FeedItem(NoText, NoString, NoString, "soon", NoText, NoText) >>]

\* the ways a request for /api/feed may end
FeedOutcomes == {"ok", "serverError", "notJson", "rejected"}

\* what GET /api/feed?<param>=<id> comes back with
FeedResponse(req, outcome) ==
  CASE outcome = "ok" ->
         Response(200, "{title, feedUrl, items}", TRUE, FeedOf(req))
    [] outcome = "serverError" ->
         Response(500, "{error}", TRUE, [error |-> "upstream feed error"])
    [] outcome = "notJson" ->
         Response(200, "<html>Bad gateway</html>", FALSE, EmptyObject)
    [] outcome = "rejected" -> Rejected("Failed to fetch")

\* the responses to every request the model can make, computed once
OEmbedAnswers ==
  [ id \in {VidA, VidB} |->
      [ outcome \in OEmbedOutcomes |-> OEmbedResponse(id, outcome) ] ]

FeedAnswers ==
  [ req \in { [param |-> "channel_id", id |-> ChA],
              [param |-> "playlist_id", id |-> PlA] } |->
      [ outcome \in FeedOutcomes |-> FeedResponse(req, outcome) ] ]

\* ------------------------------------------------------------------------
\* Results list
\* ------------------------------------------------------------------------

\* timestamps new Date() parses, with their medium-style date (en-US)
MediumDate == [iso \in {"2024-01-02T03:04:05+00:00"} |-> "Jan 2, 2024"]

\* formatDate(iso)
FormatDate(iso) ==
  IF iso = NoString THEN NoString
  ELSE IF iso \notin DOMAIN MediumDate THEN iso
  ELSE MediumDate[iso]

\* the single entry of an empty list: no listener is attached to it
EmptyEntry ==
  [cls |-> "status", thumb |-> NoText, title |-> "No items.",
   date |-> NoString, href |-> NoText, desc |-> NoString,
   videoId |-> NoText, listener |-> FALSE]

\* the entry renderFeed builds for one item; videoId is what its click
\* listener closes over
RenderItem(item) ==
  [cls      |-> "item",
   thumb    |-> item.thumbnail,
   title    |-> IF item.title # NoString THEN item.title
                ELSE IF item.videoId # NoText THEN Str(item.videoId)
                ELSE "Untitled",
   date     |-> FormatDate(item.published),
   href     |-> IF item.link # NoText THEN item.link
                ELSE WatchBase \o item.videoId,
   desc     |-> item.description,
   videoId  |-> item.videoId,
   listener |-> TRUE]

\* renderFeed(feed): the title, the subtitle and the whole list anew
RenderFeed(feed) ==
  LET items == IF "items" \in DOMAIN feed THEN feed.items ELSE <<>>
  IN  [title |-> IF Field(feed, "title") # NoString THEN Field(feed, "title")
                 ELSE "Feed",
       sub   |-> Field(feed, "feedUrl"),
       list  |-> IF items = <<>> THEN <<EmptyEntry>>
                 ELSE [i \in DOMAIN items |-> RenderItem(items[i])]]

\* the results region before any feed is rendered
EmptyResults == [title |-> NoString, sub |-> NoString, list |-> <<>>]

\* renderFeed({ title: "Feed", items: [] }) of loadFeed's catch
FailedFeed == [title |-> "Feed", items |-> <<>>]

\* list.appendChild(li) for each item in turn
RECURSIVE AppendItems(_, _)
AppendItems(list, items) ==
  IF items = <<>> THEN list
  ELSE AppendItems(Append(list, RenderItem(Head(items))), Tail(items))

\* renderFeed that does not empty the list before it appends
RenderFeedAppends(region, feed) ==
  LET items  == IF "items" \in DOMAIN feed THEN feed.items ELSE <<>>
      titled == [region EXCEPT
                   !.title = IF Field(feed, "title") # NoString
                               THEN Field(feed, "title") ELSE "Feed",
                   !.sub   = Field(feed, "feedUrl")]
  IN  IF items = <<>> THEN [titled EXCEPT !.list = Append(@, EmptyEntry)]
      ELSE [titled EXCEPT !.list = AppendItems(@, items)]

\* renderFeed(feed) step by step on the results region as it stands: the
\* title and the subtitle are assigned, the list is emptied (innerHTML =
\* ""), and the placeholder or one entry per item is appended
RenderFeedInto(region, feed) ==
  LET items   == IF "items" \in DOMAIN feed THEN feed.items ELSE <<>>
      cleared == [region EXCEPT
                    !.title = IF Field(feed, "title") # NoString
                                THEN Field(feed, "title") ELSE "Feed",
                    !.sub   = Field(feed, "feedUrl"),
                    !.list  = <<>>]
  IN  IF items = <<>> THEN [cleared EXCEPT !.list = Append(@, EmptyEntry)]
      ELSE [cleared EXCEPT !.list = AppendItems(@, items)]

\* ------------------------------------------------------------------------
\* State
\* ------------------------------------------------------------------------

VARIABLES
  addr,           \* the query parameters of window.location: name -> value
  history,        \* the session history: the address of each entry, the
                  \* current one last
  videoInput,     \* what the program last wrote to #videoInput.value
  channelInput,   \* what the program last wrote to #channelInput.value
  playlistInput,  \* what the program last wrote to #playlistInput.value
  status,         \* #status: its text and its error class
  player,         \* #playerFrame.src and #playerPlaceholder's display
  meta,           \* #metaTitle, #metaByline and the links of #metaActions
  results,        \* #resultsTitle, #resultsSub and the entries of #resultsList
  oembedPending,  \* oEmbed fetches in flight, in dispatch order
  feedPending,    \* feed fetches in flight, in dispatch order
  initPc,         \* where initFromQuery stands
  initLocals,     \* initFromQuery's channel and playlist while it awaits
  call            \* a function of the program called on its own: its
                  \* argument, whether it returned, its result

vars ==
  <<addr, history, videoInput, channelInput, playlistInput, status, player,
    meta, results, oembedPending, feedPending, initPc, initLocals, call>>

inputVars == <<videoInput, channelInput, playlistInput>>

initVars == <<initPc, initLocals>>

NoLocals == [channel |-> NoText, playlist |-> NoText]

\* no function is called on its own
NoCall == [input |-> NoText, returned |-> FALSE, result |-> NoText]

\* the page as served: empty fields, status, player, panel and list, and
\* no fetch in flight
PageAsServed ==
  /\ videoInput = NoText
  /\ channelInput = NoText
  /\ playlistInput = NoText
  /\ status = SetStatus(NoString, FALSE)
  /\ player = SetPlayer(NoText)
  /\ meta = EmptyMeta
  /\ results = EmptyResults
  /\ oembedPending = <<>>
  /\ feedPending = <<>>
  /\ initLocals = NoLocals

Init ==
  /\ addr \in StartAddresses
  /\ history = <<addr>>
  /\ PageAsServed
  /\ initPc = "start"
  /\ call = NoCall

\* a sequence without its i-th element
Without(seq, i) == SubSeq(seq, 1, i - 1) \o SubSeq(seq, i + 1, Len(seq))

\* ------------------------------------------------------------------------
\* playVideo and loadFeed up to their await
\* ------------------------------------------------------------------------

\* playVideo never pushing v into the address
PlayVideoNoPush(videoId, pushQuery, by) ==
  /\ player' = PlayerFor[videoId]
  /\ addr' = addr
  /\ history' = history
  /\ oembedPending' = Append(oembedPending, [videoId |-> videoId, by |-> by])

\* playVideo resetting the feed parameters when it pushes v
PlayVideoClearsFeed(videoId, pushQuery, by) ==
  /\ player' = PlayerFor[videoId]
  /\ addr' = IF pushQuery
               THEN SetQuery(addr, [v |-> videoId, channel |-> NoText,
                                    playlist |-> NoText])
               ELSE addr
  /\ history' = IF pushQuery THEN ReplaceState(history, addr') ELSE history
  /\ oembedPending' = Append(oembedPending, [videoId |-> videoId, by |-> by])

\* playVideo pushing v into the address whatever pushQuery says
PlayVideoAlwaysPush(videoId, pushQuery, by) ==
  /\ player' = PlayerFor[videoId]
  /\ addr' = SetQuery(addr, [v |-> videoId])
  /\ history' = ReplaceState(history, addr')
  /\ oembedPending' = Append(oembedPending, [videoId |-> videoId, by |-> by])

\* playVideo(videoId, {pushQuery}) for a non-empty videoId, up to the fetch
\* of loadOEmbed; by is who awaits it ("user" or "init")
PlayVideo(videoId, pushQuery, by) ==
  /\ player' = PlayerFor[videoId]
  /\ addr' = IF pushQuery THEN SetQuery(addr, [v |-> videoId]) ELSE addr
  /\ history' = IF pushQuery THEN ReplaceState(history, addr') ELSE history
  /\ oembedPending' = Append(oembedPending, [videoId |-> videoId, by |-> by])

\* loadFeed that leaves the status line as it is before its fetch
LoadFeedSilent(param, id, by) ==
  /\ status' = status
  /\ feedPending' = Append(feedPending, [param |-> param, id |-> id, by |-> by])

\* loadFeed(params) up to its fetch
LoadFeed(param, id, by) ==
  /\ status' = SetStatus(LoadingMsg, FALSE)
  /\ feedPending' = Append(feedPending, [param |-> param, id |-> id, by |-> by])

\* ------------------------------------------------------------------------
\* initFromQuery
\* ------------------------------------------------------------------------

\* lines 259-267: the feed part, run with the channel and playlist read
\* when initFromQuery started
InitFeedPart(channel, playlist) ==
  IF channel # NoText
    THEN /\ channelInput' = channel
         /\ playlistInput' = playlistInput
         /\ IF ChannelIdOf[channel] # NoText
              THEN /\ LoadFeed("channel_id", ChannelIdOf[channel], "init")
                   /\ initPc' = "awaitFeed"
              ELSE /\ UNCHANGED <<status, feedPending>>
                   /\ initPc' = "done"
  ELSE IF playlist # NoText
    THEN /\ playlistInput' = playlist
         /\ channelInput' = channelInput
         /\ IF PlaylistIdOf[playlist] # NoText
              THEN /\ LoadFeed("playlist_id", PlaylistIdOf[playlist], "init")
                   /\ initPc' = "awaitFeed"
              ELSE /\ UNCHANGED <<status, feedPending>>
                   /\ initPc' = "done"
  ELSE /\ UNCHANGED <<channelInput, playlistInput, status, feedPending>>
       /\ initPc' = "done"

\* initFromQuery from its start to its first await (or to its end)
InitFromQuery ==
  /\ initPc = "start"
  /\ LET v        == QueryGet(addr, "v")
         channel  == QueryGet(addr, "channel")
         playlist == QueryGet(addr, "playlist")
         id       == VideoIdOf[v]
     IN  /\ videoInput' = IF v # NoText THEN v ELSE videoInput
         /\ IF v # NoText /\ id # NoText
              THEN /\ PlayVideo(id, FALSE, "init")
                   /\ initPc' = "awaitOEmbed"
                   /\ initLocals' = [channel |-> channel, playlist |-> playlist]
                   /\ UNCHANGED <<channelInput, playlistInput, status,
                                  feedPending>>
              ELSE /\ InitFeedPart(channel, playlist)
                   /\ initLocals' = NoLocals
                   /\ UNCHANGED <<addr, history, player, oembedPending>>
  /\ UNCHANGED <<call, meta, results>>

\* ------------------------------------------------------------------------
\* The three buttons and the entries of the results list
\* ------------------------------------------------------------------------

\* the fetches in flight
InFlight == Len(oembedPending) + Len(feedPending)

\* click on #playBtn while #videoInput holds input
PlayClick(input) ==
  /\ initPc # "start"
  /\ LET id == VideoIdOf[input]
     IN  IF id = NoText
           THEN /\ status' = SetStatus(NoVideoMsg, TRUE)
                /\ UNCHANGED <<addr, history, player, oembedPending>>
           ELSE /\ InFlight < MaxInFlight
                /\ status' = SetStatus(NoString, FALSE)
                /\ PlayVideo(id, TRUE, "user")
  /\ UNCHANGED <<call, inputVars, meta, results, feedPending, initVars>>

\* the channel handler without the return of its error branch
ChannelClickNoReturn(input) ==
  /\ initPc # "start"
  /\ InFlight < MaxInFlight
  /\ LET id == ChannelIdOf[input]
     IN  /\ addr' = SetQuery(addr, [channel |-> id, playlist |-> NoText])
         /\ history' = ReplaceState(history, addr')
         /\ LoadFeed("channel_id", id, "user")
  /\ UNCHANGED <<call, inputVars, player, meta, results, oembedPending,
                 initVars>>

\* click on #channelBtn while #channelInput holds input
ChannelClick(input) ==
  /\ initPc # "start"
  /\ LET id == ChannelIdOf[input]
     IN  IF id = NoText
           THEN /\ status' = SetStatus(NoChannelMsg, TRUE)
                /\ UNCHANGED <<addr, history, feedPending>>
           ELSE /\ InFlight < MaxInFlight
                /\ addr' = SetQuery(addr, [channel |-> id, playlist |-> NoText])
                /\ history' = ReplaceState(history, addr')
                /\ LoadFeed("channel_id", id, "user")
  /\ UNCHANGED <<call, inputVars, player, meta, results, oembedPending,
                 initVars>>

\* click on #playlistBtn while #playlistInput holds input
PlaylistClick(input) ==
  /\ initPc # "start"
  /\ LET id == PlaylistIdOf[input]
     IN  IF id = NoText
           THEN /\ status' = SetStatus(NoPlaylistMsg, TRUE)
                /\ UNCHANGED <<addr, history, feedPending>>
           ELSE /\ InFlight < MaxInFlight
                /\ addr' = SetQuery(addr, [playlist |-> id, channel |-> NoText])
                /\ history' = ReplaceState(history, addr')
                /\ LoadFeed("playlist_id", id, "user")
  /\ UNCHANGED <<call, inputVars, player, meta, results, oembedPending,
                 initVars>>

\* the entry's listener without its test for a link under the click
EntryClickAnywhere(k, onLink) ==
  /\ initPc # "start"
  /\ k \in DOMAIN results.list
  /\ LET entry == results.list[k]
     IN  IF ~entry.listener \/ entry.videoId = NoText
           THEN UNCHANGED <<addr, history, player, oembedPending>>
           ELSE /\ InFlight < MaxInFlight
                /\ PlayVideo(entry.videoId, TRUE, "user")
  /\ UNCHANGED <<call, inputVars, status, meta, results, feedPending, initVars>>

\* click on the k-th entry of the results list, on its link or elsewhere
EntryClick(k, onLink) ==
  /\ initPc # "start"
  /\ k \in DOMAIN results.list
  /\ LET entry == results.list[k]
     IN  IF ~entry.listener \/ onLink \/ entry.videoId = NoText
           THEN UNCHANGED <<addr, history, player, oembedPending>>
           ELSE /\ InFlight < MaxInFlight
                /\ PlayVideo(entry.videoId, TRUE, "user")
  /\ UNCHANGED <<call, inputVars, status, meta, results, feedPending, initVars>>

\* ------------------------------------------------------------------------
\* Completions
\* ------------------------------------------------------------------------

\* loadOEmbed without its catch: a failed fetch renders nothing
LoadOEmbedDoneNoCatch(req, res) ==
  LET r == FetchJson(res)
  IN  IF r.threw THEN meta
      ELSE RenderMeta(req.videoId, Field(r.data, "title"),
                      Field(r.data, "author_name"), addr)

\* loadOEmbed after its fetch: what it renders for the request
LoadOEmbedDone(req, res) ==
  LET r == FetchJson(res)
  IN  IF r.threw
        THEN RenderMeta(req.videoId, NoString, NoString, addr)
        ELSE RenderMeta(IF "videoId" \in DOMAIN r.data THEN r.data.videoId
                        ELSE req.videoId,
                        Field(r.data, "title"), Field(r.data, "author_name"),
                        addr)

\* the response that ends the i-th oEmbed fetch in flight with outcome
OEmbedResult(i, outcome) == OEmbedAnswers[oembedPending[i].videoId][outcome]

\* a completion that sets the player to the video of its own request
OEmbedCompleteSetsPlayer(i, outcome) ==
  /\ i \in DOMAIN oembedPending
  /\ meta' = LoadOEmbedDone(oembedPending[i], OEmbedResult(i, outcome))
  /\ player' = PlayerFor[oembedPending[i].videoId]
  /\ oembedPending' = Without(oembedPending, i)
  /\ IF oembedPending[i].by = "init"
       THEN /\ InitFeedPart(initLocals.channel, initLocals.playlist)
            /\ initLocals' = NoLocals
       ELSE UNCHANGED <<channelInput, playlistInput, status, feedPending,
                        initVars>>
  /\ UNCHANGED <<call, addr, history, videoInput, results>>

\* the i-th oEmbed fetch in flight ends with outcome; when initFromQuery
\* awaits it, initFromQuery runs on to its feed part
OEmbedComplete(i, outcome) ==
  /\ i \in DOMAIN oembedPending
  /\ meta' = LoadOEmbedDone(oembedPending[i], OEmbedResult(i, outcome))
  /\ oembedPending' = Without(oembedPending, i)
  /\ IF oembedPending[i].by = "init"
       THEN /\ InitFeedPart(initLocals.channel, initLocals.playlist)
            /\ initLocals' = NoLocals
       ELSE UNCHANGED <<channelInput, playlistInput, status, feedPending,
                        initVars>>
  /\ UNCHANGED <<call, addr, history, videoInput, player, results>>

\* loadFeed whose catch leaves the list as it is
LoadFeedDoneKeepsList(res) ==
  LET r == FetchJson(res)
  IN  IF r.threw
        THEN /\ status' = SetStatus(IF r.message # NoString THEN r.message
                                    ELSE "Failed to load feed", TRUE)
             /\ results' = results
        ELSE /\ results' = RenderFeedInto(results, r.data)
             /\ status' = SetStatus(NoString, FALSE)

\* loadFeed that does not clear the status line after it has rendered
LoadFeedDoneKeepsStatus(res) ==
  LET r == FetchJson(res)
  IN  IF r.threw
        THEN /\ status' = SetStatus(IF r.message # NoString THEN r.message
                                    ELSE "Failed to load feed", TRUE)
             /\ results' = RenderFeedInto(results, FailedFeed)
        ELSE /\ results' = RenderFeedInto(results, r.data)
             /\ status' = status

\* loadFeed after its fetch: the status line and the results list
LoadFeedDone(res) ==
  LET r == FetchJson(res)
  IN  IF r.threw
        THEN /\ status' = SetStatus(IF r.message # NoString THEN r.message
                                    ELSE "Failed to load feed", TRUE)
             /\ results' = RenderFeedInto(results, FailedFeed)
        ELSE /\ results' = RenderFeedInto(results, r.data)
             /\ status' = SetStatus(NoString, FALSE)

\* what a feed fetch sends to the backend
Sent(req) == [param |-> req.param, id |-> req.id]

\* the response that ends the i-th feed fetch in flight with outcome
FeedResult(i, outcome) == FeedAnswers[Sent(feedPending[i])][outcome]

\* a completion that renders only for the fetch dispatched last
FeedCompleteLatestOnly(i, outcome) ==
  /\ i \in DOMAIN feedPending
  /\ IF i = Len(feedPending) THEN LoadFeedDone(FeedResult(i, outcome))
                             ELSE UNCHANGED <<status, results>>
  /\ feedPending' = Without(feedPending, i)
  /\ initPc' = IF feedPending[i].by = "init" THEN "done" ELSE initPc
  /\ UNCHANGED <<call, addr, history, inputVars, player, meta, oembedPending,
                 initLocals>>

\* the i-th feed fetch in flight ends with outcome
FeedComplete(i, outcome) ==
  /\ i \in DOMAIN feedPending
  /\ LoadFeedDone(FeedResult(i, outcome))
  /\ feedPending' = Without(feedPending, i)
  /\ initPc' = IF feedPending[i].by = "init" THEN "done" ELSE initPc
  /\ UNCHANGED <<call, addr, history, inputVars, player, meta, oembedPending,
                 initLocals>>

\* the positions a results list of the model has
EntryPositions == 1..Len(FeedOf([param |-> "channel_id", id |-> ChA]).items)

\* at most MaxInFlight fetches are started by the user and one more by
\* initFromQuery, so MaxInFlight + 1 positions cover every fetch in flight
Next ==
  \/ InitFromQuery
  \/ \E input \in VideoInputs : PlayClick(input)
  \/ \E input \in ChannelInputs : ChannelClick(input)
  \/ \E input \in PlaylistInputs : PlaylistClick(input)
  \/ \E k \in EntryPositions, onLink \in BOOLEAN : EntryClick(k, onLink)
  \/ \E i \in 1..(MaxInFlight + 1), outcome \in OEmbedOutcomes :
       OEmbedComplete(i, outcome)
  \/ \E i \in 1..(MaxInFlight + 1), outcome \in FeedOutcomes :
       FeedComplete(i, outcome)

Spec == Init /\ [][Next]_vars

\* ------------------------------------------------------------------------
\* Properties
\* ------------------------------------------------------------------------

\* the frame and watch addresses of the model's videos, read back once
EmbeddedIdOf == [ src \in { SetPlayer(id).src : id \in {VidA, VidB} } |->
                    EmbeddedId(src) ]

WatchedIdOf ==
  [ href \in { RenderMeta(id, NoString, NoString, [k \in {} |-> NoText]).watch :
                 id \in {VidA, VidB} } |-> WatchedId(href) ]

\* the video id the player shows (NoText when it shows none)
PlayerVideoId(p) ==
  IF p.src = NoText THEN NoText
  ELSE IF p.src \in DOMAIN EmbeddedIdOf THEN EmbeddedIdOf[p.src]
  ELSE EmbeddedId(p.src)

\* the video id the metadata panel was rendered for (NoText for none)
MetaVideoId(m) ==
  IF m.watch = NoText THEN NoText
  ELSE IF m.watch \in DOMAIN WatchedIdOf THEN WatchedIdOf[m.watch]
  ELSE WatchedId(m.watch)

\* the video id extractVideoId finds in the address parameter v
AddressVideoId(a) ==
  IF QueryGet(a, "v") \in DOMAIN VideoIdOf THEN VideoIdOf[QueryGet(a, "v")]
  ELSE ExtractVideoId(QueryGet(a, "v"))

ChannelReq(id, by) == [param |-> "channel_id", id |-> id, by |-> by]

PlaylistReq(id, by) == [param |-> "playlist_id", id |-> id, by |-> by]

\* what a feed completion with response res puts in the results list
RenderedFor(res) ==
  IF FetchJson(res).threw THEN RenderFeed(FailedFeed)
  ELSE RenderFeed(FetchJson(res).data)

\* the step takes an oEmbed fetch, or a feed fetch, out of flight
OEmbedLeaves == Len(oembedPending') < Len(oembedPending)

FeedLeaves == Len(feedPending') < Len(feedPending)

\* a parameter is absent, or present with the same value, in both addresses
SameParam(a, b, name) ==
  /\ (name \in DOMAIN a) = (name \in DOMAIN b)
  /\ QueryGet(a, name) = QueryGet(b, name)

\* C1 as stated, in the states that favour it most (no oEmbed fetch is in
\* flight): once the player shows a video, the player, the metadata panel
\* and the address parameter v name the same video id.
C1_Original ==
  (PlayerVideoId(player) # NoText /\ oembedPending = <<>>)
    => /\ MetaVideoId(meta) = PlayerVideoId(player)
       /\ QueryGet(addr, "v") = PlayerVideoId(player)

\* C1 amended: after every step, a player that shows a video shows the one
\* the address parameter v names (v itself, or the id extractVideoId finds
\* in it when initial load played a v given as a URL); and an oEmbed
\* completion renders the panel for the video of its own request, so the
\* panel agrees with the player exactly when that request was for the
\* video the player shows.
C1_PlayerFollowsAddress ==
  [][ /\ PlayerVideoId(player') # NoText
        => PlayerVideoId(player') \in { QueryGet(addr', "v"),
                                        AddressVideoId(addr') }
      /\ \A i \in DOMAIN oembedPending, outcome \in OEmbedOutcomes :
           (OEmbedLeaves /\ OEmbedComplete(i, outcome))
             => /\ MetaVideoId(meta') = oembedPending[i].videoId
                /\ (MetaVideoId(meta') = PlayerVideoId(player'))
                     = (oembedPending[i].videoId = PlayerVideoId(player)) ]_vars

\* C1 witness: a second video was played from the Play button and its
\* metadata arrived: player, panel and v all name it.
C1_Witness ==
  /\ PlayerVideoId(player) = VidB
  /\ MetaVideoId(meta) = VidB
  /\ QueryGet(addr, "v") = VidB
  /\ oembedPending = <<>>
  /\ initPc = "done"

\* C2: no generation guard. Every step that takes a feed fetch out of
\* flight - whichever one, not only the one dispatched last - replaces the
\* results list with the rendering of an answer to that very request.
C2_EveryCompletionRenders ==
  [][ FeedLeaves
        => \E i \in DOMAIN feedPending :
             /\ feedPending' = Without(feedPending, i)
             /\ \E outcome \in FeedOutcomes :
                  results' = RenderedFor(FeedResult(i, outcome)) ]_vars

\* C2 witness: the channel feed was dispatched first and the playlist feed
\* second (the address names the playlist, and initial load awaited nothing
\* because v never was in the address), both have completed, and the list
\* shows the channel's feed: the last to complete won.
C2_Witness ==
  /\ feedPending = <<>>
  /\ "v" \notin DOMAIN addr
  /\ "channel" \notin DOMAIN addr
  /\ QueryGet(addr, "playlist") = PlA
  /\ results = RenderFeed(FeedOf(ChannelReq(ChA, "user")))

\* C3: a Load-channel click whose input yields an id leaves channel equal
\* to it and playlist absent, a Load-playlist click the reverse; v is as
\* before; the fetch is still in flight then, and no feed completion
\* touches the address afterwards.
C3_FeedClickSetsAddress ==
  [][ /\ \A input \in ChannelInputs :
           (ChannelClick(input) /\ ChannelIdOf[input] # NoText)
             => /\ "channel" \in DOMAIN addr'
                /\ addr'["channel"] = ChannelIdOf[input]
                /\ "playlist" \notin DOMAIN addr'
                /\ SameParam(addr, addr', "v")
                /\ feedPending'
                     = Append(feedPending,
                              ChannelReq(ChannelIdOf[input], "user"))
      /\ \A input \in PlaylistInputs :
           (PlaylistClick(input) /\ PlaylistIdOf[input] # NoText)
             => /\ "playlist" \in DOMAIN addr'
                /\ addr'["playlist"] = PlaylistIdOf[input]
                /\ "channel" \notin DOMAIN addr'
                /\ SameParam(addr, addr', "v")
                /\ feedPending'
                     = Append(feedPending,
                              PlaylistReq(PlaylistIdOf[input], "user"))
      /\ FeedLeaves => addr' = addr ]_vars

\* C3 witness: a playlist feed had been loaded and shown, a video is in
\* the address, and Load channel was clicked: channel is set, playlist is
\* gone, v is still there, the channel fetch is in flight.
C3_Witness ==
  /\ results = RenderFeed(FeedOf(PlaylistReq(PlA, "user")))
  /\ feedPending = <<ChannelReq(ChA, "user")>>
  /\ addr = [v |-> VidA, channel |-> ChA]

\* C4: a play from the Play button or from a results entry, and the
\* completion of an oEmbed fetch such a play started, leave the channel and
\* playlist parameters, the results list and the feed fetches in flight as
\* they were.
C4_PlayLeavesFeedAlone ==
  [][ ( \/ \E input \in VideoInputs :
             PlayClick(input) /\ VideoIdOf[input] # NoText
        \/ \E k \in DOMAIN results.list : EntryClick(k, FALSE)
        \/ /\ OEmbedLeaves
           /\ \E i \in DOMAIN oembedPending, outcome \in OEmbedOutcomes :
                OEmbedComplete(i, outcome) /\ oembedPending[i].by = "user" )
      => /\ SameParam(addr, addr', "channel")
         /\ SameParam(addr, addr', "playlist")
         /\ results' = results
         /\ feedPending' = feedPending ]_vars

\* C4 witness: with a channel in the address, its feed shown and another
\* feed fetch in flight, the second video was played and its metadata
\* arrived.
C4_Witness ==
  /\ QueryGet(addr, "v") = VidB
  /\ PlayerVideoId(player) = VidB
  /\ MetaVideoId(meta) = VidB
  /\ QueryGet(addr, "channel") = ChA
  /\ results = RenderFeed(FeedOf(ChannelReq(ChA, "user")))
  /\ feedPending # <<>>

\* C5: a click on Play, Load channel or Load playlist whose input yields no
\* identifier puts its error message on the status line, in the error
\* state, and changes nothing else: no fetch is started, and the player,
\* the panel, the list and the address stay as they were.
C5_BadInputOnlyStatus ==
  [][ \A msg \in {NoVideoMsg, NoChannelMsg, NoPlaylistMsg} :
        ( \/ /\ msg = NoVideoMsg
             /\ \E input \in VideoInputs :
                  PlayClick(input) /\ VideoIdOf[input] = NoText
          \/ /\ msg = NoChannelMsg
             /\ \E input \in ChannelInputs :
                  ChannelClick(input) /\ ChannelIdOf[input] = NoText
          \/ /\ msg = NoPlaylistMsg
             /\ \E input \in PlaylistInputs :
                  PlaylistClick(input) /\ PlaylistIdOf[input] = NoText )
        => /\ status' = [text |-> msg, error |-> TRUE]
           /\ UNCHANGED <<addr, player, meta, results, oembedPending,
                          feedPending>> ]_vars

\* C5 witness: a video plays, a feed is shown, a fetch is in flight, and
\* the status line carries the channel button's error.
C5_Witness ==
  /\ status = [text |-> NoChannelMsg, error |-> TRUE]
  /\ PlayerVideoId(player) = VidA
  /\ results.list # <<>>
  /\ oembedPending # <<>>

\* C6: when the oEmbed fetch of a user's play of X fails, the player is
\* left as it is (so it still embeds X if it did), the panel is rendered
\* for X with the fallback title "Video: X" and an empty byline, and the
\* status line is not written.
C6_FailedOEmbedDegrades ==
  [][ \A i \in DOMAIN oembedPending, outcome \in {"notFound", "rejected"} :
        ( /\ OEmbedLeaves
          /\ oembedPending[i].by = "user"
          /\ OEmbedComplete(i, outcome) )
        => /\ player' = player
           /\ status' = status
           /\ MetaVideoId(meta') = oembedPending[i].videoId
           /\ meta'.title = "Video: " \o Str(oembedPending[i].videoId)
           /\ meta'.byline = NoString ]_vars

\* C6 witness: the first video was played from the Play button after
\* another video's metadata had been shown, its oEmbed fetch failed, and
\* the player still embeds it under the fallback title.
C6_Witness ==
  /\ PlayerVideoId(player) = VidA
  /\ QueryGet(addr, "v") = VidA
  /\ meta.title = "Video: dQw4w9WgXcQ"
  /\ meta.byline = NoString
  /\ oembedPending = <<>>
  /\ initPc = "done"
  /\ videoInput # VidA
  /\ status = [text |-> NoString, error |-> FALSE]

\* C7: a feed load with a valid id shows the loading status and puts
\* exactly one request in flight; its completion either shows the feed
\* returned and clears the status, or shows the empty feed titled "Feed"
\* (the single placeholder) with the error's message in the error state.
C7_FeedLoadOutcome ==
  [][ /\ ( \/ \E input \in ChannelInputs :
                ChannelClick(input) /\ ChannelIdOf[input] # NoText
           \/ \E input \in PlaylistInputs :
                PlaylistClick(input) /\ PlaylistIdOf[input] # NoText )
        => /\ status' = [text |-> LoadingMsg, error |-> FALSE]
           /\ Len(feedPending') = Len(feedPending) + 1
           /\ SubSeq(feedPending', 1, Len(feedPending)) = feedPending
           /\ oembedPending' = oembedPending
      /\ \A i \in DOMAIN feedPending, outcome \in FeedOutcomes :
           (FeedLeaves /\ FeedComplete(i, outcome))
             => LET res == FeedResult(i, outcome)
                IN
                /\ Len(feedPending') = Len(feedPending) - 1
                /\ oembedPending' = oembedPending
                /\ IF res.rejected \/ ~res.ok
                     THEN /\ results' = [title |-> "Feed", sub |-> NoString,
                                         list |-> <<EmptyEntry>>]
                          /\ status'.error
                          /\ status'.text # NoString
                          /\ status'.text \in {FetchJson(res).message,
                                                "Failed to load feed"}
                     ELSE /\ results' = RenderFeed(FetchJson(res).data)
                          /\ Len(results'.list) >= 1
                          /\ status' = [text |-> NoString, error |-> FALSE] ]_vars

\* C7 witness: a feed load failed with the backend's error: the list is
\* the single placeholder under "Feed" and the status shows the message.
C7_Witness ==
  /\ results = [title |-> "Feed", sub |-> NoString, list |-> <<EmptyEntry>>]
  /\ status = [text |-> "upstream feed error", error |-> TRUE]
  /\ feedPending = <<>>
  /\ "channel" \in DOMAIN addr

\* C8 as stated: a feed load whose response body is not valid JSON ends
\* with an error message on the status line, in the error state, whatever
\* the transport status.
C8_InvalidJsonIsError ==
  [][ \A i \in DOMAIN feedPending, outcome \in FeedOutcomes :
        ( /\ FeedLeaves
          /\ FeedComplete(i, outcome)
          /\ ~FeedResult(i, outcome).rejected
          /\ ~FeedResult(i, outcome).valid )
          => (status'.error /\ status'.text # NoString) ]_vars

\* C9 as stated: on initial load with a valid v and a valid feed parameter
\* the feed request is issued whether or not the oEmbed fetch has resolved:
\* while initial load still awaits the oEmbed fetch, its feed request is
\* already in flight (or done).
C9_FeedIndependentOfOEmbed ==
  ( /\ initPc = "awaitOEmbed"
    /\ \/ ChannelIdOf[initLocals.channel] # NoText
       \/ /\ initLocals.channel = NoText
          /\ PlaylistIdOf[initLocals.playlist] # NoText )
    => \E i \in DOMAIN feedPending : feedPending[i].by = "init"

\* C10 as stated: initial load issues at most one feed request, for the
\* channel when channel is present and for the playlist only when channel
\* is absent, and every parameter present in the address has its input
\* field populated with its value once initial load has passed its feed
\* part.
C10_InitPopulatesAndLoadsOnce ==
  [][ (initPc \in {"start", "awaitOEmbed"} /\ initPc' \in {"awaitFeed", "done"})
        => LET channel  == IF initPc = "start" THEN QueryGet(addr, "channel")
                           ELSE initLocals.channel
               playlist == IF initPc = "start" THEN QueryGet(addr, "playlist")
                           ELSE initLocals.playlist
               issued   == SubSeq(feedPending', Len(feedPending) + 1,
                                  Len(feedPending'))
           IN  /\ Len(issued) <= 1
               /\ \A j \in DOMAIN issued :
                    IF channel # NoText
                      THEN issued[j].param = "channel_id"
                      ELSE issued[j].param = "playlist_id"
               /\ (initPc = "start" /\ QueryGet(addr, "v") # NoText)
                    => videoInput' = QueryGet(addr, "v")
               /\ channel # NoText => channelInput' = channel
               /\ playlist # NoText => playlistInput' = playlist ]_vars

\* the three parameters the program reads and writes
ParamNames == {"v", "channel", "playlist"}

\* the step is one of initFromQuery: its start, or the completion of the
\* fetch it awaits
InitStep == initPc' # initPc

\* C11: initial load never writes the address. Every step of initFromQuery
\* - its start, which plays v without pushing it, the completion of its
\* oEmbed fetch, which runs its feed part, and the completion of its feed
\* fetch - and every other completion of a fetch leaves v, channel and
\* playlist absent or present with the value they had.
C11_InitLeavesAddress ==
  [][ (InitStep \/ OEmbedLeaves \/ FeedLeaves)
        => \A name \in ParamNames : SameParam(addr, addr', name) ]_vars

\* C11 witness: initial load ran to its end on an address whose v is a
\* URL and whose channel is an id: the video plays, its metadata and the
\* channel's feed are shown, and the address still holds v as the URL.
C11_Witness ==
  /\ initPc = "done"
  /\ addr = [v |-> Https \o <<"y","o","u","t","u",".","b","e","/">> \o VidB,
             channel |-> ChA]
  /\ videoInput = addr["v"]
  /\ channelInput = ChA
  /\ PlayerVideoId(player) = VidB
  /\ MetaVideoId(meta) = VidB
  /\ results = RenderFeed(FeedOf(ChannelReq(ChA, "init")))
  /\ oembedPending = <<>>
  /\ feedPending = <<>>

\* the step is a button or entry click that found an identifier and so
\* dispatched a play or a feed load
DispatchClick ==
  \/ \E input \in VideoInputs : PlayClick(input) /\ VideoIdOf[input] # NoText
  \/ \E input \in ChannelInputs :
       ChannelClick(input) /\ ChannelIdOf[input] # NoText
  \/ \E input \in PlaylistInputs :
       PlaylistClick(input) /\ PlaylistIdOf[input] # NoText
  \/ \E k \in DOMAIN results.list :
       /\ EntryClick(k, FALSE)
       /\ results.list[k].listener
       /\ results.list[k].videoId # NoText

\* C12 as stated: a click whose identifier extraction succeeds puts
\* exactly one more request in flight, and the completion of a fetch,
\* failed or not, takes its request out of flight and issues no further
\* request - no queue of fetches in flight grows in that step.
C12_NoRequestAfterResponse ==
  [][ /\ DispatchClick => InFlight' = InFlight + 1
      /\ (OEmbedLeaves \/ FeedLeaves)
           => /\ Len(oembedPending') <= Len(oembedPending)
              /\ Len(feedPending') <= Len(feedPending) ]_vars

\* the status line while a feed loads
Loading == SetStatus(LoadingMsg, FALSE)

\* the step is a click that writes the status line without loading a feed:
\* Play (which clears it or reports its input), or Load channel / Load
\* playlist on an input without an identifier
StatusClick ==
  \/ \E input \in VideoInputs : PlayClick(input)
  \/ \E input \in ChannelInputs :
       ChannelClick(input) /\ ChannelIdOf[input] = NoText
  \/ \E input \in PlaylistInputs :
       PlaylistClick(input) /\ PlaylistIdOf[input] = NoText

\* C13 as stated: from the dispatch of a feed load until its fetch
\* resolves the status line shows the loading message - whenever a feed
\* fetch is in flight, whatever else has happened meanwhile.
C13_Original == feedPending # <<>> => status = Loading

\* C13 amended: dispatching a feed load puts the loading message on the
\* status line, and there is no timeout: while a feed fetch is in flight
\* the message stays until the status line is written again, which only a
\* feed completion (of this fetch or of another one) or a click that
\* writes the status line does; entry clicks, oEmbed completions and
\* further feed loads leave it.
C13_LoadingUntilStatusWrite ==
  [][ /\ Len(feedPending') > Len(feedPending) => status' = Loading
      /\ (feedPending # <<>> /\ status = Loading /\ status' # Loading)
           => (FeedLeaves \/ StatusClick) ]_vars

\* C13 witness: a playlist load is in flight behind the channel's feed
\* shown earlier; meanwhile a video was played and its metadata arrived,
\* and the status line still shows the loading message.
C13_Witness ==
  /\ feedPending = <<PlaylistReq(PlA, "user")>>
  /\ status = Loading
  /\ results = RenderFeed(FeedOf(ChannelReq(ChA, "user")))
  /\ PlayerVideoId(player) = VidB
  /\ MetaVideoId(meta) = VidB
  /\ QueryGet(addr, "v") = VidB
  /\ oembedPending = <<>>

\* ------------------------------------------------------------------------
\* setQuery called with any updates, on a page with some history
\* ------------------------------------------------------------------------

\* the values of an update: null, undefined, the empty string, identifiers
QueryValues == {Null, Undefined, NoText, VidA, ChA}

\* every updates object over the three parameters, the empty one included
QueryUpdates == UNION { [names -> QueryValues] : names \in SUBSET ParamNames }

\* the value of a parameter t that the program never names
Seconds == <<"4","2">>

\* the addresses setQuery is called on: with and without the program's
\* parameters, with t present, present and empty, or absent
QueryAddresses ==
  { [t |-> Seconds],
    [v |-> VidB, t |-> NoText],
    [v |-> VidB, channel |-> ChA, playlist |-> PlA] }

\* the page as loaded, as the only entry of the session history or after
\* an earlier entry
InitQuery ==
  /\ addr \in QueryAddresses
  /\ history \in { <<addr>>, <<[k \in {} |-> NoText], addr>> }
  /\ PageAsServed
  /\ initPc = "done"
  /\ call = NoCall

\* setQuery(updates), lines 64-71
SetQueryCall(updates) ==
  /\ addr' = SetQuery(addr, updates)
  /\ history' = ReplaceState(history, addr')
  /\ UNCHANGED <<call, inputVars, status, player, meta, results, oembedPending,
                 feedPending, initVars>>

NextQuery == \E updates \in QueryUpdates : SetQueryCall(updates)

SpecQuery == InitQuery /\ [][NextQuery]_vars

\* C14: setQuery(updates) changes only the parameters updates names: one
\* mapped to null, undefined or the empty string is absent afterwards, one
\* mapped to another value is present with exactly that value, every
\* other parameter is absent or present with its value as before, and the
\* session history keeps its length and its earlier entries: the current
\* entry takes the new address.
C14_SetQueryFrame ==
  [][ \A updates \in QueryUpdates :
        SetQueryCall(updates)
          => /\ \A k \in DOMAIN updates :
                  IF updates[k] \in {Null, Undefined, NoText}
                    THEN k \notin DOMAIN addr'
                    ELSE k \in DOMAIN addr' /\ addr'[k] = updates[k]
             /\ \A k \in (DOMAIN addr \cup DOMAIN addr') \ DOMAIN updates :
                  SameParam(addr, addr', k)
             /\ Len(history') = Len(history)
             /\ history'[Len(history')] = addr'
             /\ SubSeq(history', 1, Len(history) - 1)
                  = SubSeq(history, 1, Len(history) - 1) ]_vars

\* C14 witness: on a page reached from an earlier entry, with only t in
\* its address, setQuery has set v and channel and deleted nothing else:
\* t is as it was and the history still has its two entries.
C14_Witness ==
  /\ addr = [v |-> ChA, channel |-> VidA, t |-> Seconds]
  /\ history = <<[k \in {} |-> NoText], addr>>

\* ------------------------------------------------------------------------
\* extractVideoId called on its own
\* ------------------------------------------------------------------------

\* candidate segments: two ids, one character short, one character long,
\* a character outside the pattern, nothing
Candidates ==
  { VidA, VidB, SubSeq(VidA, 1, VideoIdLen - 1), VidA \o <<"x">>,
    SubSeq(VidA, 1, VideoIdLen - 1) \o <<"!">>, NoText }

\* the forms an input takes around its candidate segment c
InputForms(c) ==
  LET www == <<"w","w","w",".">> \o YoutubeCom
      wv  == <<"/","w","a","t","c","h","?","v","=">>
  IN  { c,
        <<" ">> \o c \o <<" ">>,
        Https \o YoutuBe \o <<"/">> \o c,
        Https \o YoutuBe \o <<"/">> \o c \o <<"?","t","=","4","2">>,
        Https \o www \o wv \o c,
        Https \o <<"m",".">> \o YoutubeCom
          \o <<"/","w","a","t","c","h","?","a","=","b","&","v","=">> \o c
          \o <<"&","t","=","1">>,
        Https \o YoutubeCom \o <<"/">> \o Shorts \o <<"/">> \o c,
        Https \o www \o <<"/">> \o Embed \o <<"/">> \o c
          \o <<"?","r","e","l","=","0">>,
        <<"H","T","T","P",":","/","/","W","W","W",".","Y","O","U","T","U","B",
          "E",".","C","O","M","/">> \o Embed \o <<"/">> \o c \o <<"/">>,
        Https \o <<"v","i","m","e","o",".","c","o","m","/">> \o c,
        YoutubeCom \o wv \o c }

\* each input with the candidate it was built around
ExtractCases ==
  UNION { { [input |-> i, candidate |-> c] : i \in InputForms(c) } :
          c \in Candidates }

ExtractInputs == { case.input : case \in ExtractCases }

InitExtract ==
  /\ addr = [k \in {} |-> NoText]
  /\ history = <<addr>>
  /\ PageAsServed
  /\ initPc = "done"
  /\ call \in { [input |-> i, returned |-> FALSE, result |-> NoText] :
                  i \in ExtractInputs }

\* extractVideoId(input), lines 9-41
ExtractCall ==
  /\ ~call.returned
  /\ call' = [call EXCEPT !.returned = TRUE,
                          !.result = ExtractVideoId(call.input)]
  /\ UNCHANGED <<addr, history, inputVars, status, player, meta, results,
                 oembedPending, feedPending, initVars>>

NextExtract == ExtractCall

SpecExtract == InitExtract /\ [][NextExtract]_vars

\* exactly 11 characters, each a letter, a digit, "_" or "-"
ElevenAllowed(s) ==
  /\ Len(s) = VideoIdLen
  /\ \A i \in 1..Len(s) :
       s[i] \in Range(LowerLetters) \cup Range(UpperLetters) \cup Digits
                  \cup {"_", "-"}

\* C15: extractVideoId returns an input of exactly 11 allowed characters
\* unchanged; whatever its input, it returns null or exactly 11 allowed
\* characters; and for an input built around a candidate segment - bare,
\* or as a youtu.be, watch?v=, shorts/ or embed/ address - what it returns
\* is the whole candidate, never a part of a longer one.
C15_ExtractVideoIdExact ==
  call.returned
    => /\ ElevenAllowed(call.input) => call.result = call.input
       /\ call.result # NoText => ElevenAllowed(call.result)
       /\ \A case \in ExtractCases :
            (case.input = call.input /\ call.result # NoText)
              => call.result = case.candidate

\* C15 witness: a shorts address whose segment has 12 allowed characters
\* was tried and gave null.
C15_Witness ==
  /\ call.returned
  /\ call.input = Https \o YoutubeCom \o <<"/">> \o Shorts \o <<"/">>
                    \o VidA \o <<"x">>
  /\ call.result = NoText

\* ------------------------------------------------------------------------
\* renderFeed called on its own, render after render
\* ------------------------------------------------------------------------

\* two items, as the backend sends them
ItemOne ==
  FeedItem(VidB, "Second video", "About it", "2024-01-02T03:04:05+00:00",
           Https \o <<"i",".","y","t","/","b",".","j","p","g">>,
           WatchBase \o VidB)

ItemTwo == FeedItem(VidA, NoString, NoString, "soon", NoText, NoText)

\* the lists of items a feed carries; the same item may come twice
ItemLists ==
  { <<>>, <<ItemOne>>, <<ItemTwo>>, <<ItemOne, ItemTwo>>,
    <<ItemTwo, ItemOne>>, <<ItemOne, ItemOne>>,
    <<ItemOne, ItemTwo, ItemOne>> }

\* the feeds rendered: with and without a title, and one without any field
RenderFeeds ==
  { [title |-> t, feedUrl |-> "https://www.youtube.com/feeds/videos.xml",
     items |-> items] : t \in {NoString, "Uploads"}, items \in ItemLists }
    \cup {EmptyObject}

InitRender ==
  /\ addr = [k \in {} |-> NoText]
  /\ history = <<addr>>
  /\ PageAsServed
  /\ initPc = "done"
  /\ call = NoCall

\* renderFeed(feed), lines 136-201; call keeps the feed and the region as
\* it stood before
RenderCall(feed) ==
  /\ results' = RenderFeedInto(results, feed)
  /\ call' = [input |-> feed, returned |-> TRUE, result |-> results]
  /\ UNCHANGED <<addr, history, inputVars, status, player, meta,
                 oembedPending, feedPending, initVars>>

NextRender == \E feed \in RenderFeeds : RenderCall(feed)

SpecRender == InitRender /\ [][NextRender]_vars

\* C16: whatever was rendered before, after renderFeed(feed) the region
\* is what rendering feed once on the empty list gives - its title (or
\* "Feed"), its subtitle, and one entry per item in feed order, or the
\* single placeholder - and rendering feed once more leaves it so.
C16_RenderFeedReplaces ==
  call.returned
    => LET feed  == call.input
           items == IF "items" \in DOMAIN feed THEN feed.items ELSE <<>>
       IN  /\ results = RenderFeedInto(EmptyResults, feed)
           /\ RenderFeedInto(results, feed) = results
           /\ results.title = IF Field(feed, "title") # NoString
                                THEN Field(feed, "title") ELSE "Feed"
           /\ results.sub = Field(feed, "feedUrl")
           /\ IF items = <<>> THEN results.list = <<EmptyEntry>>
              ELSE /\ Len(results.list) = Len(items)
                   /\ \A i \in DOMAIN items :
                        results.list[i] = RenderItem(items[i])

\* C16 witness: a feed of one item was rendered over a list of three
\* entries, and one entry is shown.
C16_Witness ==
  /\ call.returned
  /\ Len(call.result.list) = 3
  /\ call.input = [title |-> NoString,
                   feedUrl |-> "https://www.youtube.com/feeds/videos.xml",
                   items |-> <<ItemTwo>>]
  /\ results.list = <<RenderItem(ItemTwo)>>
  /\ results.title = "Feed"

\* C17: a click on an entry of the results list outside its link, when
\* the entry was built for an item with a video id, makes the player embed
\* that id, puts its oEmbed request in flight and sets v to it; a click on
\* an entry's link, on an entry whose item has no video id, or on the
\* placeholder of an empty list changes nothing and issues no request.
C17_EntryClickPlays ==
  [][ \A k \in EntryPositions, onLink \in BOOLEAN :
        EntryClick(k, onLink)
          => LET entry == results.list[k]
             IN  IF entry.cls = "item" /\ ~onLink /\ entry.videoId # NoText
                   THEN /\ PlayerVideoId(player') = entry.videoId
                        /\ oembedPending'
                             = Append(oembedPending,
                                      [videoId |-> entry.videoId,
                                       by |-> "user"])
                        /\ "v" \in DOMAIN addr'
                        /\ addr'["v"] = entry.videoId
                        /\ feedPending' = feedPending
                   ELSE UNCHANGED vars ]_vars

\* C17 witness: with the channel's feed shown and nothing else done since
\* initial load found no v, the first entry was clicked: the player embeds
\* its video, v names it and its oEmbed request is in flight.
C17_Witness ==
  /\ results = RenderFeed(FeedOf(ChannelReq(ChA, "init")))
  /\ PlayerVideoId(player) = VidB
  /\ addr = [v |-> VidB, channel |-> ChA, playlist |-> PlA]
  /\ oembedPending = <<[videoId |-> VidB, by |-> "user"]>>
  /\ meta = EmptyMeta
  /\ feedPending = <<>>
  /\ status = SetStatus(NoString, FALSE)

\* ------------------------------------------------------------------------
\* fetchJson called on its own, response by response
\* ------------------------------------------------------------------------

\* transport statuses, successful and not
Statuses == {200, 201, 204, 400, 403, 404, 500, 503}

\* bodies that parse, with the payload parsed: with and without an error
\* field, the field empty, and beside other fields
ParsedBodies ==
  { [text |-> "{}", json |-> EmptyObject],
    [text |-> "{error: quota exceeded}", json |-> [error |-> "quota exceeded"]],
    [text |-> "{error: }", json |-> [error |-> NoString]],
    [text |-> "{title: Rick}", json |-> [title |-> "Rick"]],
    [text |-> "{error: gone, title: Rick}",
     json |-> [error |-> "gone", title |-> "Rick"]] }

\* bodies that do not parse, the empty body among them
UnparsedBodies == {NoString, "<html>Bad gateway</html>", "Not Found"}

\* the responses fetch may resolve with
FetchResponses ==
  { Response(st, b.text, TRUE, b.json) : st \in Statuses, b \in ParsedBodies }
    \cup { Response(st, text, FALSE, EmptyObject) :
             st \in Statuses, text \in UnparsedBodies }

InitFetch ==
  /\ addr = [k \in {} |-> NoText]
  /\ history = <<addr>>
  /\ PageAsServed
  /\ initPc = "done"
  /\ call \in { [input |-> res, returned |-> FALSE, result |-> NoText] :
                  res \in FetchResponses }

\* fetchJson(path) once fetch has resolved with the response, lines 75-85
FetchCall ==
  /\ ~call.returned
  /\ call' = [call EXCEPT !.returned = TRUE, !.result = FetchJson(call.input)]
  /\ UNCHANGED <<addr, history, inputVars, status, player, meta, results,
                 oembedPending, feedPending, initVars>>

NextFetch == FetchCall

SpecFetch == InitFetch /\ [][NextFetch]_vars

\* C18: on a response whose status is not successful fetchJson fails, with
\* the error field of the payload when the body parses and carries a
\* non-empty one, with the body text when the body does not parse and is
\* not empty, and with "HTTP <status>" otherwise; it returns a value only
\* on a successful status, and that value is the parsed payload whenever
\* the body parses.
C18_FetchJsonOutcome ==
  call.returned
    => LET res == call.input
           r   == call.result
       IN  /\ ~res.ok
                => /\ r.threw
                   /\ r.message
                        = IF res.valid /\ "error" \in DOMAIN res.json
                             /\ res.json.error # NoString
                            THEN res.json.error
                          ELSE IF ~res.valid /\ res.text # NoString
                            THEN res.text
                          ELSE "HTTP " \o ToString(res.status)
           /\ ~r.threw => res.ok
           /\ (~r.threw /\ res.valid) => r.data = res.json

\* C18 witness: a 503 with a body that does not parse failed with the
\* body text.
C18_Witness ==
  /\ call.returned
  /\ call.input = Response(503, "<html>Bad gateway</html>", FALSE, EmptyObject)
  /\ call.result.threw
  /\ call.result.message = "<html>Bad gateway</html>"

\* C19: the status line shows the loading message only while a feed fetch
\* is in flight: in every reachable state without one, its text is not the
\* loading message.
C19_LoadingOnlyWhilePending ==
  feedPending = <<>> => status.text # LoadingMsg

\* C19 witness: initial load is over, a playlist load was dispatched after
\* it and failed on the network; no fetch is in flight and the status line
\* shows the failure.
C19_Witness ==
  /\ initPc = "done"
  /\ feedPending = <<>>
  /\ oembedPending = <<>>
  /\ QueryGet(addr, "playlist") = PlA
  /\ "channel" \notin DOMAIN addr
  /\ status = SetStatus("Failed to fetch", TRUE)

\* C20: the player is written when a play is dispatched and at no other
\* time. A step that puts an oEmbed request in flight - which every play
\* does, from the Play button, an entry or initial load - leaves the
\* player embedding the id of that request, at the nocookie embed address
\* of the id with autoplay=1, rel=0 and modestbranding=1; every other
\* step, the completions of oEmbed and feed fetches in any order among
\* them, leaves the player as it is. So the player always embeds the id
\* of the play dispatched last.
C20_PlayerFollowsDispatch ==
  [][ IF Len(oembedPending') > Len(oembedPending)
        THEN LET id == oembedPending'[Len(oembedPending')].videoId
             IN  /\ player'.src = EmbedBase \o id \o <<"?">> \o EmbedParams
                 /\ player'.placeholder = "none"
        ELSE player' = player ]_vars

\* C20 witness: initial load played the second video, the first was then
\* played from the Play button, and the metadata of the second arrived
\* last: the panel names the second video, the player still embeds the
\* first.
C20_Witness ==
  /\ videoInput = Https \o YoutuBe \o <<"/">> \o VidB
  /\ player.src = EmbedBase \o VidA \o <<"?">> \o EmbedParams
  /\ QueryGet(addr, "v") = VidA
  /\ MetaVideoId(meta) = VidB
  /\ oembedPending = <<>>

====
